---- MODULE Spec2Model ----
(***************************************************************************)
(* Booking lifecycle of the car-rental backend: the booking endpoints      *)
(* (bookings/views.py), the booking and payment services                   *)
(* (bookings/services.py) and the Booking table (bookings/models.py);      *)
(* the catalog: cars, their images and reviews (cars/models.py,            *)
(* cars/services.py, cars/views.py).                                       *)
(*                                                                         *)
(* A request handler is a sequence of database accesses with no            *)
(* transaction around them (settings.py sets no ATOMIC_REQUESTS, the       *)
(* services use no transaction.atomic and no select_for_update), so every  *)
(* handler is split at its database accesses: a first step that reads, a   *)
(* second step that writes what the first step decided.  Model.save()      *)
(* writes every column of the in-memory instance the handler loaded.       *)
(***************************************************************************)
EXTENDS Integers, FiniteSets, Sequences, TLC

\* ------------------------------------------------------------------ bounds
MaxTime == 2
MaxBookings == 2
MaxIntents == 2
MaxImages == 2
MaxReviews == 2

\* ------------------------------------------------------------------ data
Procs == {"w1", "w2"}
Users == {"alice", "frank"}
Cars == {"c1", "c2"}
CarIds == Cars \cup {"c9"}
Times == 0..MaxTime
TicksPerDay == 2
NULL == 0

\* The staff: frank manages the fleet, adam administers the site.
Staff == {"frank", "adam"}

role(u) ==
    CASE u = "frank" -> "fleet"
      [] u = "adam" -> "admin"
      [] OTHER -> "customer"

STATUS == {"pending", "confirmed", "cancelled", "refunded", "completed"}

is_fleet(u) == role(u) = "fleet"
is_admin(u) == role(u) = "admin"

CAR_STATUS == {"available", "maintenance", "unavailable", "rented"}

VARIABLES bookings, nextId, nextIntent, intents, cars, images, reviews,
          pc, loc, resp

vars == <<bookings, nextId, nextIntent, intents, cars, images, reviews,
          pc, loc, resp>>

\* The Car rows: every car is owned by the fleet manager.
owner(c) == "frank"
Prices == {50, 80}
price_per_day(c) == cars[c].price_per_day

NoLoc == [id |-> 0, intent |-> NULL, b |-> <<>>]
NoResp == [op |-> "none", code |-> 0, id |-> 0, detail |-> ""]

\* The "detail" text of the responses whose text is fixed by the endpoint.
Detail(op, code) ==
    CASE op = "create" /\ code = 409 -> "Car not available for selected dates"
      [] op = "cancel" /\ code = 400 -> "Cannot cancel booking in current status"
      [] op = "cancel" /\ code = 200 -> "Booking cancelled successfully"
      [] op = "pay" /\ code = 400 -> "Booking is not in pending state"
      [] OTHER -> ""

Answer(op, code, id) ==
    [op |-> op, code |-> code, id |-> id, detail |-> Detail(op, code)]

Booking(u, c, s, e, tp, st, pi) ==
    [user |-> u, car |-> c, start |-> s, end |-> e, total_price |-> tp,
     status |-> st, stripe_payment_intent |-> pi]

Max(a, b) == IF a >= b THEN a ELSE b

\* Model.save() on an instance with a primary key: UPDATE of every column,
\* INSERT of the row when the UPDATE matched nothing.
Save(id, b) ==
    [i \in DOMAIN bookings \cup {id} |-> IF i = id THEN b ELSE bookings[i]]

overlaps(b, start, end) == ~(b.end <= start \/ b.start >= end)

\* Faulty variant: the status filter is dropped, every booking of the car blocks.
_is_car_available_AnyStatus(car, start, end) ==
    \A i \in DOMAIN bookings :
        (bookings[i].car = car)
            => (bookings[i].end <= start \/ bookings[i].start >= end)

\* Faulty variant: the comparisons are strict, a shared boundary counts as overlap.
_is_car_available_Inclusive(car, start, end) ==
    \A i \in DOMAIN bookings :
        (bookings[i].car = car /\ bookings[i].status \in {"pending", "confirmed"})
            => (bookings[i].end < start \/ bookings[i].start > end)

_is_car_available(car, start, end) ==
    \A i \in DOMAIN bookings :
        (bookings[i].car = car /\ bookings[i].status \in {"pending", "confirmed"})
            => (bookings[i].end <= start \/ bookings[i].start >= end)

\* Faulty variant: a started day counts as a whole day.
_calculate_total_price_Ceil(car, start, end) ==
    Max(((end - start) + TicksPerDay - 1) \div TicksPerDay, 1)
        * price_per_day(car)

_calculate_total_price(car, start, end) ==
    Max((end - start) \div TicksPerDay, 1) * price_per_day(car)

_validate_booking_data(car_id, start, end) == start < end

\* Faulty variant: every user sees every booking.
get_queryset_All(u) == DOMAIN bookings

get_queryset(u) ==
    IF is_fleet(u) \/ is_admin(u)
    THEN DOMAIN bookings
    ELSE {i \in DOMAIN bookings : bookings[i].user = u}

\* ------------------------------------------------------------------ init
\* The store is empty, or holds one booking that earlier requests left behind:
\* a booking that was paid for (it carries the reference of intent 1, whose
\* metadata names it) and is confirmed, cancelled, refunded or completed.
\* A store holding a pending booking is reached through create.
SeedBookings ==
    {Booking(u, "c1", 0, e, _calculate_total_price("c1", 0, e), st, 1) :
        u \in Users, e \in {1, MaxTime}, st \in STATUS \ {"pending"}}

Init ==
    /\ cars = [c \in Cars |->
                [price_per_day |-> IF c = "c1" THEN 50 ELSE 80,
                 status |-> "available", is_active |-> TRUE]]
    /\ \/ /\ bookings = <<>>
          /\ intents = <<>>
       \/ /\ \E b \in SeedBookings : bookings = (1 :> b)
          /\ intents = (1 :> 1)
    /\ images = <<>>
    /\ reviews = <<>>
    /\ nextId = Cardinality(DOMAIN bookings) + 1
    /\ nextIntent = Cardinality(DOMAIN intents) + 1
    /\ pc = [p \in Procs |-> "idle"]
    /\ loc = [p \in Procs |-> NoLoc]
    /\ resp = [p \in Procs |-> NoResp]

Finish(p, op, code, id) ==
    /\ pc' = [pc EXCEPT ![p] = "idle"]
    /\ loc' = [loc EXCEPT ![p] = NoLoc]
    /\ resp' = [resp EXCEPT ![p] = Answer(op, code, id)]

\* A ValueError caught at the request boundary: its text is the detail.
Fail(p, op, code, detail) ==
    /\ pc' = [pc EXCEPT ![p] = "idle"]
    /\ loc' = [loc EXCEPT ![p] = NoLoc]
    /\ resp' = [resp EXCEPT ![p] = [Answer(op, code, 0) EXCEPT !.detail = detail]]

Continue(p, at, id, b) ==
    /\ pc' = [pc EXCEPT ![p] = at]
    /\ loc' = [loc EXCEPT ![p] = [id |-> id, intent |-> NULL, b |-> b]]
    /\ UNCHANGED resp

\* ------------------------------------------------------------------ create
Inserting == {q \in Procs : pc[q] = "create_insert"}

\* Faulty variant: the conflict is answered like any other client error.
create_status_Generic(outcome) ==
    CASE outcome = "ValueError" -> 400
      [] outcome = "BookingConflictError" -> 400
      [] OTHER -> 201

\* BookingViewSet.create: the status of the response for each outcome.
create_status(outcome) ==
    CASE outcome = "ValueError" -> 400
      [] outcome = "BookingConflictError" -> 409
      [] OTHER -> 201

\* Faulty variant: the car is not looked up, the booking is stored for
\* whatever car id the request names.
CreateCheck_NoLookup(p, user, car_id, start, end) ==
    /\ pc[p] = "idle"
    /\ UNCHANGED <<bookings, nextId, nextIntent, intents, cars, images, reviews>>
    /\ IF ~_validate_booking_data(car_id, start, end) THEN
            Fail(p, "create", 400, "Start date must be before end date")
       ELSE IF ~_is_car_available(car_id, start, end) THEN
            Finish(p, "create", 409, 0)
       ELSE /\ nextId + Cardinality({q \in Procs : pc[q] = "create_insert"})
                    <= MaxBookings
            /\ Continue(p, "create_insert", 0,
                    Booking(user, car_id, start, end, 0, "pending", NULL))

\* BookingViewSet.create once start and end are parsed: the order test of
\* _validate_booking_data, then create_booking up to its availability check
\* and price computation.
CreateCheck(p, user, car_id, start, end) ==
    /\ pc[p] = "idle"
    /\ UNCHANGED <<bookings, nextId, nextIntent, intents, cars, images, reviews>>
    /\ IF ~_validate_booking_data(car_id, start, end) THEN
            Fail(p, "create", create_status("ValueError"),
                 "Start date must be before end date")
       ELSE IF car_id \notin Cars THEN
            Fail(p, "create", create_status("ValueError"), "Car not found")
       ELSE IF ~_is_car_available(car_id, start, end) THEN
            Finish(p, "create", create_status("BookingConflictError"), 0)
       ELSE /\ nextId + Cardinality(Inserting) <= MaxBookings
            /\ Continue(p, "create_insert", 0,
                    Booking(user, car_id, start, end,
                            _calculate_total_price(car_id, start, end),
                            "pending", NULL))

\* Booking.objects.create of create_booking, and the 201 response.
CreateInsert(p) ==
    /\ pc[p] = "create_insert"
    /\ bookings' = Save(nextId, loc[p].b)
    /\ nextId' = nextId + 1
    /\ UNCHANGED <<nextIntent, intents, cars, images, reviews>>
    /\ Finish(p, "create", create_status("created"), nextId)

\* The request's raw fields: "" is a field the request lacks, "soon" a text
\* that is no timestamp, ToString(t) the timestamp of time t.
parse_datetime(raw) == {t \in Times : ToString(t) = raw}

all_present(car_id, start, end) == car_id # "" /\ start # "" /\ end # ""

\* BookingViewSet.create from the raw request: the presence and parse tests
\* of _validate_booking_data, then the rest of the handler.
CreateRequest(p, user, car_id, start, end) ==
    IF ~all_present(car_id, start, end) THEN
        /\ pc[p] = "idle"
        /\ UNCHANGED <<bookings, nextId, nextIntent, intents, cars, images, reviews>>
        /\ Fail(p, "create", create_status("ValueError"),
                "car, start, and end are required fields")
    ELSE IF parse_datetime(start) = {} \/ parse_datetime(end) = {} THEN
        /\ pc[p] = "idle"
        /\ UNCHANGED <<bookings, nextId, nextIntent, intents, cars, images, reviews>>
        /\ Fail(p, "create", create_status("ValueError"),
                "Invalid datetime format for start or end")
    ELSE \E s \in parse_datetime(start), e \in parse_datetime(end) :
            CreateCheck(p, user, car_id, s, e)

\* ------------------------------------------------------------------ cancel
\* Faulty variant: only an already cancelled booking is refused.
cancellable_NotCancelled(b) == b.status # "cancelled"

\* cancel_booking's test of the loaded instance's status.
cancellable(b) == b.status \in {"pending", "confirmed"}

\* Faulty variant: cancelling also records a refund.
cancel_booking_Refund(b) == [b EXCEPT !.status = "refunded"]

\* cancel_booking on the loaded instance: the status it saves.
cancel_booking(b) == [b EXCEPT !.status = "cancelled"]

\* BookingViewSet.cancel: get_object, then cancel_booking's status test on
\* the loaded instance.
CancelLoad(p, user, id) ==
    /\ pc[p] = "idle"
    /\ UNCHANGED <<bookings, nextId, nextIntent, intents, cars, images, reviews>>
    /\ IF id \notin get_queryset(user) THEN
            Finish(p, "cancel", 404, id)
       ELSE IF ~cancellable(bookings[id]) THEN
            Finish(p, "cancel", 400, id)
       ELSE Continue(p, "cancel_save", id, cancel_booking(bookings[id]))

\* booking.save() of cancel_booking, and the 200 response.
CancelSave(p) ==
    /\ pc[p] = "cancel_save"
    /\ bookings' = Save(loc[p].id, loc[p].b)
    /\ UNCHANGED <<nextId, nextIntent, intents, cars, images, reviews>>
    /\ Finish(p, "cancel", 200, loc[p].id)

\* BookingViewSet's inherited retrieve (GET /bookings/{id}/): get_object.
Retrieve(p, user, id) ==
    /\ pc[p] = "idle"
    /\ UNCHANGED <<bookings, nextId, nextIntent, intents, cars, images,
                   reviews>>
    /\ IF id \notin get_queryset(user) THEN
            Finish(p, "retrieve", 404, id)
       ELSE Finish(p, "retrieve", 200, id)

\* ------------------------------------------------------------------ payment
\* Faulty variant: a confirmed booking can be paid again.
payable_Active(b) == b.status \in {"pending", "confirmed"}

\* create_payment_intent's test of the loaded instance's status.
payable(b) == b.status = "pending"

\* Faulty variant: the first reference is kept, later intents are not stored.
with_intent_First(b, intent) ==
    IF b.stripe_payment_intent = NULL
    THEN [b EXCEPT !.stripe_payment_intent = intent]
    ELSE b

\* create_payment_intent on the loaded instance: the reference it saves.
with_intent(b, intent) == [b EXCEPT !.stripe_payment_intent = intent]

\* Faulty variant: the staff reach every booking, as in the booking viewset.
get_object_or_404_Staff(user) == get_queryset(user)

\* CreatePaymentIntentView.post: get_object_or_404(Booking, pk=...,
\* user=request.user) finds the bookings of the requesting user only.
get_object_or_404(user) ==
    {i \in DOMAIN bookings : bookings[i].user = user}

\* CreatePaymentIntentView.post: get_object_or_404(pk, user), then
\* create_payment_intent up to the gateway call, which returns a fresh id.
PayLoad(p, user, id) ==
    /\ pc[p] = "idle"
    /\ UNCHANGED <<bookings, nextId, intents, cars, images, reviews>>
    /\ IF id \notin get_object_or_404(user) THEN
            /\ Finish(p, "pay", 404, id)
            /\ UNCHANGED nextIntent
       ELSE IF ~payable(bookings[id]) THEN
            /\ Finish(p, "pay", 400, id)
            /\ UNCHANGED nextIntent
       ELSE /\ nextIntent <= MaxIntents
            /\ nextIntent' = nextIntent + 1
            /\ loc' = [loc EXCEPT ![p] = [id |-> id, intent |-> nextIntent,
                                        b |-> with_intent(bookings[id], nextIntent)]]
            /\ pc' = [pc EXCEPT ![p] = "pay_save"]
            /\ UNCHANGED resp

\* booking.save() of create_payment_intent, and the response that hands the
\* client secret to the caller: from here on the gateway can report the
\* intent as paid.  The intent's metadata carries the booking id.
PaySave(p) ==
    /\ pc[p] = "pay_save"
    /\ bookings' = Save(loc[p].id, loc[p].b)
    /\ intents' = (loc[p].intent :> loc[p].id) @@ intents
    /\ UNCHANGED <<nextId, nextIntent, cars, images, reviews>>
    /\ Finish(p, "pay", 200, loc[p].id)

\* ------------------------------------------------------------------ webhook
EventTypes == {"payment_intent.succeeded", "payment_intent.payment_failed"}

\* Faulty variant: a second confirmation moves the booking on.
_handle_payment_success_Twice(b) ==
    [b EXCEPT !.status = IF @ = "confirmed" THEN "completed" ELSE "confirmed"]

\* _handle_payment_success on the loaded instance: the status it saves.
_handle_payment_success(b) == [b EXCEPT !.status = "confirmed"]

\* Faulty variant: the booking is looked up by its stored payment reference.
booking_id_ByReference(i) ==
    IF \E k \in DOMAIN bookings : bookings[k].stripe_payment_intent = i
    THEN CHOOSE k \in DOMAIN bookings : bookings[k].stripe_payment_intent = i
    ELSE 0

\* payment_intent["metadata"].get("booking_id") of the event about intent i.
booking_id(i) == intents[i]

\* Faulty variant: every verified event is handled as a payment.
handles_Any(type) == TRUE

\* handle_webhook_event's test of the event type.
handles(type) == type = "payment_intent.succeeded"

\* Faulty variant: a missing booking is reported as an error.
webhook_status_Raise(outcome) ==
    CASE outcome = "SignatureVerificationError" -> 400
      [] outcome = "DoesNotExist" -> 400
      [] OTHER -> 200

\* stripe_webhook: the status of the response for each outcome.  A failed
\* verification raises into the view; DoesNotExist is caught in the service.
webhook_status(outcome) ==
    CASE outcome = "SignatureVerificationError" -> 400
      [] OTHER -> 200

\* stripe_webhook: verify_webhook, handle_webhook_event, and
\* _handle_payment_success up to Booking.objects.get.  The event is about
\* intent i, whose metadata.booking_id is intents[i].
WebhookLoad(p, sig_ok, type, i) ==
    /\ pc[p] = "idle"
    /\ i \in DOMAIN intents
    /\ UNCHANGED <<bookings, nextId, nextIntent, intents, cars, images, reviews>>
    /\ IF ~sig_ok THEN
            Finish(p, "webhook", webhook_status("SignatureVerificationError"), 0)
       ELSE IF ~handles(type) THEN
            Finish(p, "webhook", webhook_status("ignored"), 0)
       ELSE IF booking_id(i) \notin DOMAIN bookings THEN
            Finish(p, "webhook", webhook_status("DoesNotExist"), 0)
       ELSE Continue(p, "webhook_save", booking_id(i),
                     _handle_payment_success(bookings[booking_id(i)]))

\* booking.save() of _handle_payment_success, and the 200 response.
WebhookSave(p) ==
    /\ pc[p] = "webhook_save"
    /\ bookings' = Save(loc[p].id, loc[p].b)
    /\ UNCHANGED <<nextId, nextIntent, intents, cars, images, reviews>>
    /\ Finish(p, "webhook", webhook_status("saved"), loc[p].id)

\* ------------------------------------------------------------------ update
\* Faulty variant: the price is computed again from the new car and interval.
perform_update_Reprice(b, car_id, start, end) ==
    [b EXCEPT !.car = car_id, !.start = start, !.end = end,
              !.total_price = _calculate_total_price(car_id, start, end)]

\* BookingSerializer on update: car, start and end are written; status,
\* stripe_payment_intent, user and total_price are read-only.
perform_update(b, car_id, start, end) ==
    [b EXCEPT !.car = car_id, !.start = start, !.end = end]

\* BookingViewSet's inherited update (PUT /bookings/{id}/): get_object, then
\* the serializer's validation, which looks the car up and compares nothing.
UpdateLoad(p, user, id, car_id, start, end) ==
    /\ pc[p] = "idle"
    /\ UNCHANGED <<bookings, nextId, nextIntent, intents, cars, images, reviews>>
    /\ IF id \notin get_queryset(user) THEN
            Finish(p, "update", 404, id)
       ELSE IF car_id \notin Cars THEN
            Fail(p, "update", 400, "Invalid pk - object does not exist")
       ELSE Continue(p, "update_save", id,
                     perform_update(bookings[id], car_id, start, end))

\* instance.save() of the serializer, and the 200 response.
UpdateSave(p) ==
    /\ pc[p] = "update_save"
    /\ bookings' = Save(loc[p].id, loc[p].b)
    /\ UNCHANGED <<nextId, nextIntent, intents, cars, images, reviews>>
    /\ Finish(p, "update", 200, loc[p].id)

\* ------------------------------------------------------------------ destroy
\* BookingViewSet's inherited destroy (DELETE /bookings/{id}/): get_object.
DestroyLoad(p, user, id) ==
    /\ pc[p] = "idle"
    /\ UNCHANGED <<bookings, nextId, nextIntent, intents, cars, images, reviews>>
    /\ IF id \notin get_queryset(user) THEN
            Finish(p, "destroy", 404, id)
       ELSE Continue(p, "destroy_delete", id, bookings[id])

\* instance.delete(), and the 204 response.
DestroyDelete(p) ==
    /\ pc[p] = "destroy_delete"
    /\ bookings' = [i \in DOMAIN bookings \ {loc[p].id} |-> bookings[i]]
    /\ UNCHANGED <<nextId, nextIntent, intents, cars, images, reviews>>
    /\ Finish(p, "destroy", 204, loc[p].id)

\* ------------------------------------------------------------------ cars
\* CarViewSet's partial_update of price_per_day: IsFleetManagerOrReadOnly,
\* get_queryset (the fleet manager's own cars), validate_price_per_day.
CarUpdate(p, user, car_id, price) ==
    /\ pc[p] = "idle"
    /\ UNCHANGED <<bookings, nextId, nextIntent, intents, images, reviews>>
    /\ IF ~is_fleet(user) THEN
            /\ Finish(p, "car_update", 403, 0)
            /\ UNCHANGED cars
       ELSE IF car_id \notin Cars \/ owner(car_id) # user THEN
            /\ Finish(p, "car_update", 404, 0)
            /\ UNCHANGED cars
       ELSE IF price <= 0 THEN
            /\ Finish(p, "car_update", 400, 0)
            /\ UNCHANGED cars
       ELSE /\ cars' = [cars EXCEPT ![car_id].price_per_day = price]
            /\ Finish(p, "car_update", 200, 0)

\* ------------------------------------------------------------------ specs
BookingIds == 1..MaxBookings
IntentIds == 1..MaxIntents

Ranges == {r \in Times \X Times : r[1] < r[2]}

\* One worker serves create and cancel requests one after the other; the
\* create requests are well-formed (an existing car, start < end).
Next ==
    \/ \E c \in Cars, r \in Ranges : CreateCheck("w1", "alice", c, r[1], r[2])
    \/ CreateInsert("w1")
    \/ \E u \in Users, id \in BookingIds : CancelLoad("w1", u, id)
    \/ CancelSave("w1")

Spec == Init /\ [][Next]_vars

\* One worker serves the requests of a booking's life one after the other:
\* create (car c1, the range [0, 1)), cancel, create payment intent, and the
\* gateway's webhook.
NextPay ==
    \/ CreateCheck("w1", "alice", "c1", 0, 1)
    \/ CreateInsert("w1")
    \/ \E u \in Users, id \in BookingIds : CancelLoad("w1", u, id)
    \/ CancelSave("w1")
    \/ \E u \in Users, id \in BookingIds : PayLoad("w1", u, id)
    \/ PaySave("w1")
    \/ \E ok \in BOOLEAN, t \in EventTypes, i \in IntentIds :
            WebhookLoad("w1", ok, t, i)
    \/ WebhookSave("w1")

SpecPay == Init /\ [][NextPay]_vars

\* The raw create requests: a known and an unknown car id with every pair of
\* timestamps (in any order), and requests with a missing or unparseable
\* field.
Stamps == {ToString(t) : t \in Times}
CreateData ==
    ({"c1", "c9"} \X Stamps \X Stamps)
        \cup {<<"", "0", "1">>, <<"c1", "", "1">>, <<"c1", "0", "">>,
              <<"c1", "soon", "1">>, <<"c1", "0", "soon">>}

\* One worker serves raw create requests.
NextCreate ==
    \/ \E d \in CreateData : CreateRequest("w1", "alice", d[1], d[2], d[3])
    \/ CreateInsert("w1")

SpecCreate == Init /\ [][NextCreate]_vars

\* CarViewSet's partial_update of status: the same permission, queryset and
\* serializer as CarUpdate; the status is one of the model's choices.
CarStatusUpdate(p, user, car_id, status) ==
    /\ pc[p] = "idle"
    /\ UNCHANGED <<bookings, nextId, nextIntent, intents, images, reviews>>
    /\ IF ~is_fleet(user) THEN
            /\ Finish(p, "car_update", 403, 0)
            /\ UNCHANGED cars
       ELSE IF car_id \notin Cars \/ owner(car_id) # user THEN
            /\ Finish(p, "car_update", 404, 0)
            /\ UNCHANGED cars
       ELSE IF status \notin CAR_STATUS THEN
            /\ Finish(p, "car_update", 400, 0)
            /\ UNCHANGED cars
       ELSE /\ cars' = [cars EXCEPT ![car_id].status = status]
            /\ Finish(p, "car_update", 200, 0)

\* CarAdmin's change form: the site's staff set is_active.
CarAdminSave(car_id, is_active) ==
    /\ cars' = [cars EXCEPT ![car_id].is_active = is_active]
    /\ UNCHANGED <<bookings, nextId, nextIntent, intents, images, reviews,
                   pc, loc, resp>>

\* Car.is_available_for_booking.
is_available_for_booking(c) == cars[c].status = "available" /\ cars[c].is_active

\* Faulty variant: only confirmed bookings keep the car.
active_bookings_Confirmed(car, now) ==
    \E i \in DOMAIN bookings :
        /\ bookings[i].car = car
        /\ bookings[i].status = "confirmed"
        /\ bookings[i].start <= now
        /\ bookings[i].end >= now

\* update_car_status_after_booking's query: a pending or confirmed booking
\* of the car with start <= now <= end.
active_bookings(car, now) ==
    \E i \in DOMAIN bookings :
        /\ bookings[i].car = car
        /\ bookings[i].status \in {"pending", "confirmed"}
        /\ bookings[i].start <= now
        /\ bookings[i].end >= now

\* CarService.update_car_status_after_booking at time now: the query and
\* car.save().
update_car_status_after_booking(car, booking_status, now) ==
    /\ cars' =
         IF booking_status = "confirmed" THEN
            [cars EXCEPT ![car].status = "rented"]
         ELSE IF booking_status \in {"cancelled", "completed"}
                    /\ ~active_bookings(car, now) THEN
            [cars EXCEPT ![car].status = "available"]
         ELSE cars
    /\ UNCHANGED <<bookings, nextId, nextIntent, intents, images, reviews,
                   pc, loc, resp>>

\* No date given to the search.
None == -1

\* Faulty variant: a shared boundary counts as a conflict.
get_available_cars_Inclusive(start_date, end_date) ==
    {c \in Cars :
        /\ cars[c].status = "available"
        /\ cars[c].is_active
        /\ (start_date # None /\ end_date # None)
            => ~\E i \in DOMAIN bookings :
                    /\ bookings[i].car = c
                    /\ bookings[i].status \in {"pending", "confirmed"}
                    /\ bookings[i].start <= end_date
                    /\ bookings[i].end >= start_date}

\* CarService.get_available_cars without a location filter: the available,
\* active cars, less those with a pending or confirmed booking that starts
\* before end_date and ends after start_date.
get_available_cars(start_date, end_date) ==
    {c \in Cars :
        /\ cars[c].status = "available"
        /\ cars[c].is_active
        /\ (start_date # None /\ end_date # None)
            => ~\E i \in DOMAIN bookings :
                    /\ bookings[i].car = c
                    /\ bookings[i].status \in {"pending", "confirmed"}
                    /\ bookings[i].start < end_date
                    /\ bookings[i].end > start_date}

\* ------------------------------------------------------------------ images
\* The workers that have cleared the flags and are about to insert a new image.
InsertingImage == {q \in Procs : pc[q] = "image_save" /\ loc[q].id = 0}

\* CarImage.save up to its UPDATE: an instance with is_primary set clears the
\* flag of every stored primary image of its car.  id 0 is a new image, any
\* other id a stored image of the car that the admin's inline form edits.
ImageClear(p, id, car, is_primary) ==
    /\ pc[p] = "idle"
    /\ IF id = 0
       THEN Cardinality(DOMAIN images) + Cardinality(InsertingImage) < MaxImages
       ELSE id \in DOMAIN images /\ images[id].car = car
    /\ images' =
         IF is_primary
         THEN [i \in DOMAIN images |->
                IF images[i].car = car /\ images[i].is_primary
                THEN [images[i] EXCEPT !.is_primary = FALSE]
                ELSE images[i]]
         ELSE images
    /\ UNCHANGED <<bookings, nextId, nextIntent, intents, cars, reviews>>
    /\ Continue(p, "image_save", id, [car |-> car, is_primary |-> is_primary])

\* super().save() of CarImage.save: the row of the instance is written.
ImageSave(p) ==
    /\ pc[p] = "image_save"
    /\ LET id == IF loc[p].id = 0
                 THEN Cardinality(DOMAIN images) + 1
                 ELSE loc[p].id
       IN /\ images' = [i \in DOMAIN images \cup {id} |->
                            IF i = id THEN loc[p].b ELSE images[i]]
          /\ Finish(p, "image", 302, id)
    /\ UNCHANGED <<bookings, nextId, nextIntent, intents, cars, reviews>>

\* ------------------------------------------------------------------ reviews
\* Faulty variant: any booking of the car by the user will do.
can_user_review_car_AnyStatus(user, car, booking) ==
    IF booking # NULL
    THEN /\ bookings[booking].user = user
         /\ bookings[booking].car = car
    ELSE \E i \in DOMAIN bookings :
            /\ bookings[i].user = user
            /\ bookings[i].car = car

\* CarReviewService.can_user_review_car; booking is NULL or the id of the
\* Booking instance the caller passes.
can_user_review_car(user, car, booking) ==
    IF booking # NULL
    THEN /\ bookings[booking].user = user
         /\ bookings[booking].car = car
         /\ bookings[booking].status = "completed"
    ELSE \E i \in DOMAIN bookings :
            /\ bookings[i].user = user
            /\ bookings[i].car = car
            /\ bookings[i].status = "completed"

\* CarReviewService.create_review, and the caller's answer: the test, then
\* CarReview.objects.create; ValueError is answered 400.
create_review(p, user, car, booking) ==
    /\ pc[p] = "idle"
    /\ UNCHANGED <<bookings, nextId, nextIntent, intents, cars, images>>
    /\ IF ~can_user_review_car(user, car, booking) THEN
            /\ Fail(p, "review", 400, "User cannot review this car")
            /\ UNCHANGED reviews
       ELSE /\ Len(reviews) < MaxReviews
            /\ reviews' = Append(reviews,
                    [user |-> user, car |-> car, booking |-> booking])
            /\ Finish(p, "review", 201, 0)

\* CarViewSet.review: get_object over the public queryset (available, active
\* cars), then create_review with booking = data.get('booking_id'), the raw
\* id: a given id is no Booking instance, the test raises AttributeError and
\* the request ends in a server error.
ReviewRequest(p, user, car_id, raw_id) ==
    IF car_id \notin Cars \/ ~is_available_for_booking(car_id) THEN
        /\ pc[p] = "idle"
        /\ UNCHANGED <<bookings, nextId, nextIntent, intents, cars, images,
                       reviews>>
        /\ Finish(p, "review", 404, 0)
    ELSE IF raw_id # NULL THEN
        /\ pc[p] = "idle"
        /\ UNCHANGED <<bookings, nextId, nextIntent, intents, cars, images,
                       reviews>>
        /\ Finish(p, "review", 500, 0)
    ELSE create_review(p, user, car_id, NULL)

\* The bodies of the update requests: another car, an interval that ends
\* before it starts, and a car id that names no car.
UpdateData == {<<"c2", 0, 1>>, <<"c1", 1, 0>>, <<"c9", 0, 1>>}

PriceData == Prices \cup {0}

\* One worker serves every request the booking endpoints accept, the verified
\* payment events of the gateway, and the fleet manager's price changes; the
\* create requests arrive while the store is empty.
NextApi ==
    \/ bookings = <<>> /\ CreateCheck("w1", "alice", "c1", 0, 1)
    \/ CreateInsert("w1")
    \/ \E id \in BookingIds, d \in UpdateData :
            UpdateLoad("w1", "alice", id, d[1], d[2], d[3])
    \/ UpdateSave("w1")
    \/ \E id \in BookingIds : DestroyLoad("w1", "alice", id)
    \/ DestroyDelete("w1")
    \/ \E id \in BookingIds : CancelLoad("w1", "alice", id)
    \/ CancelSave("w1")
    \/ \E id \in BookingIds : PayLoad("w1", "alice", id)
    \/ PaySave("w1")
    \/ \E i \in IntentIds :
            WebhookLoad("w1", TRUE, "payment_intent.succeeded", i)
    \/ WebhookSave("w1")
    \/ \E u \in Users, price \in PriceData : CarUpdate("w1", u, "c1", price)

\* The store is empty when the first request arrives.
InitApi == Init /\ bookings = <<>>

SpecApi == InitApi /\ [][NextApi]_vars

\* The ends of the bookings whose price is computed: up to MaxSpan half-days.
MaxSpan == 5

\* One worker serves create requests of every length from 0 for both cars
\* and the fleet manager's price changes.
NextPrice ==
    \/ \E c \in Cars, e \in 1..MaxSpan : CreateCheck("w1", "alice", c, 0, e)
    \/ CreateInsert("w1")
    \/ \E c \in Cars, price \in Prices : CarUpdate("w1", "frank", c, price)

SpecPrice == Init /\ [][NextPrice]_vars

\* One worker serves create and cancel requests for car c1 and the fleet
\* manager's status changes; the staff switch the car on and off; the
\* car-status recompute runs for any booking status at any time.
NextCatalog ==
    \/ \E r \in Ranges : CreateCheck("w1", "alice", "c1", r[1], r[2])
    \/ CreateInsert("w1")
    \/ \E id \in BookingIds : CancelLoad("w1", "alice", id)
    \/ CancelSave("w1")
    \/ \E st \in CAR_STATUS : CarStatusUpdate("w1", "frank", "c1", st)
    \/ \E a \in BOOLEAN : CarAdminSave("c1", a)
    \/ \E st \in {"confirmed", "cancelled", "completed"}, now \in Times :
            update_car_status_after_booking("c1", st, now)

SpecCatalog == InitApi /\ [][NextCatalog]_vars

AllUsers == Users \cup Staff

\* One worker serves the requests of the customer, the fleet manager and the
\* admin on any booking: retrieve, cancel, create payment intent; the
\* customer creates bookings.
NextAccess ==
    \/ CreateCheck("w1", "alice", "c1", 0, 1)
    \/ CreateInsert("w1")
    \/ \E u \in AllUsers, id \in BookingIds : Retrieve("w1", u, id)
    \/ \E u \in AllUsers, id \in BookingIds : CancelLoad("w1", u, id)
    \/ CancelSave("w1")
    \/ \E u \in AllUsers, id \in BookingIds : PayLoad("w1", u, id)
    \/ PaySave("w1")

SpecAccess == Init /\ [][NextAccess]_vars

\* Worker w1 serves the customer's create and payment-intent requests while
\* worker w2 serves cancel requests and the gateway's verified
\* payment-succeeded events; the steps of the two interleave freely.
NextStale ==
    \/ bookings = <<>> /\ CreateCheck("w1", "alice", "c1", 0, 1)
    \/ CreateInsert("w1")
    \/ \E id \in BookingIds : PayLoad("w1", "alice", id)
    \/ PaySave("w1")
    \/ \E id \in BookingIds : CancelLoad("w2", "alice", id)
    \/ CancelSave("w2")
    \/ \E i \in IntentIds :
            WebhookLoad("w2", TRUE, "payment_intent.succeeded", i)
    \/ WebhookSave("w2")

SpecStale == InitApi /\ [][NextStale]_vars

\* Two workers save new and stored images of the cars through the admin's
\* inline form; the steps of the two interleave freely.
NextImages ==
    \E p \in Procs :
        \/ \E id \in 0..MaxImages, c \in Cars, f \in BOOLEAN :
                ImageClear(p, id, c, f)
        \/ ImageSave(p)

SpecImages == InitApi /\ [][NextImages]_vars

\* One worker serves review requests of the users for the cars, with and
\* without a booking id, and the customer's create requests for car c2;
\* create_review is also applied to every stored Booking instance.
NextReviews ==
    \/ \E u \in Users, c \in CarIds, b \in {NULL} \cup BookingIds :
            ReviewRequest("w1", u, c, b)
    \/ \E u \in Users, c \in Cars, b \in {NULL} \cup DOMAIN bookings :
            create_review("w1", u, c, b)
    \/ CreateCheck("w1", "alice", "c2", 0, 1)
    \/ CreateInsert("w1")
    \/ \E st \in CAR_STATUS : CarStatusUpdate("w1", "frank", "c1", st)

SpecReviews == Init /\ [][NextReviews]_vars

\* Two workers each serve one create request for car c1 and a range that
\* starts at 0: any two of these ranges overlap.
NextRace ==
    \E p \in Procs :
        \/ /\ resp[p] = NoResp
           /\ \E u \in Users, e \in Times \ {0} : CreateCheck(p, u, "c1", 0, e)
        \/ CreateInsert(p)

SpecRace == Init /\ [][NextRace]_vars

\* ------------------------------------------------------------------ claims
Active(b) == b.status \in {"pending", "confirmed"}

\* A stored active booking of car c shares an instant with [s, e).
Blocked(c, s, e) ==
    \E i \in DOMAIN bookings :
        /\ bookings[i].car = c
        /\ Active(bookings[i])
        /\ bookings[i].start < e
        /\ s < bookings[i].end

Answered == \A p \in Procs : pc[p] = "idle" /\ resp[p].op = "create"

\* C1: two create requests for car c1 and overlapping ranges, served by two
\* workers in any interleaving while no confirmed booking holds the car: once
\* both are answered, one got 201 and the other 409.
C1_ExactlyOneSucceeds ==
    (Answered /\ \A i \in DOMAIN bookings : bookings[i].status # "confirmed")
        => {resp[p].code : p \in Procs} = {201, 409}

\* C2: no two active bookings of one car overlap.
C2_NoDoubleBooking ==
    \A i, j \in DOMAIN bookings :
        (i # j /\ bookings[i].car = bookings[j].car
            /\ Active(bookings[i]) /\ Active(bookings[j]))
        => (bookings[i].end <= bookings[j].start
                \/ bookings[j].end <= bookings[i].start)

\* C3: a create request for an existing car and a range with s < e passes the
\* availability check exactly when no active booking of that car overlaps the
\* range, is answered 409 with the store unchanged otherwise, and a request
\* that passed the check stores its booking as pending and is answered 201.
C3_CreateIffFree ==
    [][/\ \A c \in Cars, r \in Ranges :
            CreateCheck("w1", "alice", c, r[1], r[2]) =>
                /\ (pc'["w1"] = "create_insert") <=> ~Blocked(c, r[1], r[2])
                /\ Blocked(c, r[1], r[2]) =>
                        (resp'["w1"] = Answer("create", 409, 0) /\ pc'["w1"] = "idle")
                /\ bookings' = bookings
       /\ pc["w1"] = "create_insert" =>
            /\ resp'["w1"] = Answer("create", 201, nextId)
            /\ DOMAIN bookings' = DOMAIN bookings \cup {nextId}
            /\ nextId \notin DOMAIN bookings
            /\ bookings'[nextId] = loc["w1"].b
            /\ bookings'[nextId].status = "pending"
            /\ \A i \in DOMAIN bookings : bookings'[i] = bookings[i]]_vars

\* A booking was created for a range that an inactive booking of the same car
\* overlaps, or that a booking of another car overlaps.
C3_Witness ==
    /\ resp["w1"].op = "create" /\ resp["w1"].code = 201
    /\ \E i, j \in DOMAIN bookings :
        /\ resp["w1"].id = j /\ i # j
        /\ bookings[i].start < bookings[j].end
        /\ bookings[j].start < bookings[i].end
        /\ \/ bookings[i].car # bookings[j].car
           \/ bookings[i].status \in {"cancelled", "refunded", "completed"}

\* An active booking of car c ends at s or starts at e.
Adjacent(c, s, e) ==
    \E i \in DOMAIN bookings :
        /\ bookings[i].car = c
        /\ Active(bookings[i])
        /\ bookings[i].end = s \/ bookings[i].start = e

\* C4: a create request for a range that starts where an active booking of
\* the car ends, or ends where one starts, passes the availability check
\* unless an active booking of the car overlaps the range.
C4_BackToBack ==
    [][\A c \in Cars, r \in Ranges :
            (/\ CreateCheck("w1", "alice", c, r[1], r[2])
             /\ Adjacent(c, r[1], r[2])
             /\ \A i \in DOMAIN bookings :
                    (bookings[i].car = c /\ Active(bookings[i])) =>
                        (bookings[i].end <= r[1] \/ bookings[i].start >= r[2]))
            => /\ pc'["w1"] = "create_insert"
               /\ loc'["w1"].b.car = c
               /\ loc'["w1"].b.start = r[1]
               /\ loc'["w1"].b.end = r[2]]_vars

\* Two active bookings of one car, one ending when the other starts, the
\* later one just created.
C4_Witness ==
    /\ resp["w1"].op = "create" /\ resp["w1"].code = 201
    /\ \E i, j \in DOMAIN bookings :
        /\ resp["w1"].id \in {i, j}
        /\ bookings[i].car = bookings[j].car
        /\ Active(bookings[i]) /\ Active(bookings[j])
        /\ bookings[i].end = bookings[j].start

Edges ==
    {<<"pending", "confirmed">>, <<"confirmed", "completed">>,
     <<"pending", "cancelled">>, <<"confirmed", "cancelled">>,
     <<"confirmed", "refunded">>}

\* C5: a booking's status changes only along the edges of the lifecycle, so
\* never once it is cancelled, refunded or completed.
C5_StatusEdges ==
    [][\A i \in DOMAIN bookings :
            i \in DOMAIN bookings' =>
                \/ bookings'[i].status = bookings[i].status
                \/ <<bookings[i].status, bookings'[i].status>> \in Edges]_vars

Succeeded == "payment_intent.succeeded"

\* C6: handling a payment-succeeded event for a stored booking that is not
\* pending changes nothing in the store and answers 200.
C6_NonPendingNoOp ==
    [][(/\ pc["w1"] = "webhook_save"
        /\ loc["w1"].id \in DOMAIN bookings
        /\ bookings[loc["w1"].id].status # "pending")
            => /\ bookings' = bookings
               /\ resp'["w1"].code = 200]_vars

\* Handling the event for a pending booking sets it to confirmed, changes
\* nothing else and answers 200.
ConfirmsPending ==
    (/\ pc["w1"] = "webhook_save"
     /\ loc["w1"].id \in DOMAIN bookings
     /\ bookings[loc["w1"].id].status = "pending")
        => /\ bookings' = [bookings EXCEPT ![loc["w1"].id].status = "confirmed"]
           /\ resp'["w1"] = Answer("webhook", 200, loc["w1"].id)

C8_Idempotent ==
    [][(/\ pc["w1"] = "webhook_save"
        /\ resp["w1"] = Answer("webhook", 200, loc["w1"].id))
            => /\ bookings' = bookings
               /\ bookings'[loc["w1"].id].status = "confirmed"
               /\ intents' = intents
               /\ resp'["w1"] = resp["w1"]]_vars

\* The event was handled once and its second delivery has loaded the booking.
C8_Witness ==
    /\ pc["w1"] = "webhook_save"
    /\ resp["w1"] = Answer("webhook", 200, loc["w1"].id)
    /\ bookings[loc["w1"].id].status = "confirmed"

\* User u may act on booking id through the booking endpoint.
Visible(u, id) == bookings[id].user = u \/ role(u) \in {"fleet", "admin"}

\* C9: a cancel request on a stored booking that is neither pending nor
\* confirmed is answered with an error (400 when the caller may see the
\* booking) and changes nothing in the store.
C9_CancelRejected ==
    [][\A u \in Users, id \in BookingIds :
            (/\ CancelLoad("w1", u, id)
             /\ id \in DOMAIN bookings
             /\ bookings[id].status \in {"completed", "cancelled", "refunded"})
                => /\ pc'["w1"] = "idle"
                   /\ resp'["w1"].op = "cancel"
                   /\ resp'["w1"].code = IF Visible(u, id) THEN 400 ELSE 404
                   /\ bookings' = bookings]_vars

\* A cancel request on a completed booking was answered 400.
C9_Witness ==
    \E id \in DOMAIN bookings :
        /\ resp["w1"] = Answer("cancel", 400, id)
        /\ bookings[id].status = "completed"

\* C10: a cancel request on a pending or confirmed booking the caller may see
\* sets that booking's status to cancelled, leaves its other fields, every
\* other booking and the set of stored bookings as they were, and answers 200.
C10_CancelFrame ==
    [][/\ \A u \in Users, id \in BookingIds :
            (/\ CancelLoad("w1", u, id)
             /\ id \in DOMAIN bookings
             /\ Visible(u, id)
             /\ bookings[id].status \in {"pending", "confirmed"})
                => /\ pc'["w1"] = "cancel_save"
                   /\ loc'["w1"].id = id
                   /\ bookings' = bookings
       /\ pc["w1"] = "cancel_save" =>
            /\ loc["w1"].id \in DOMAIN bookings
            /\ bookings' = [bookings EXCEPT ![loc["w1"].id].status = "cancelled"]
            /\ resp'["w1"] = Answer("cancel", 200, loc["w1"].id)]_vars

\* A booking that carries a payment reference was cancelled while another
\* booking is stored.
C10_Witness ==
    \E id \in DOMAIN bookings :
        /\ resp["w1"] = Answer("cancel", 200, id)
        /\ bookings[id].status = "cancelled"
        /\ bookings[id].stripe_payment_intent # NULL
        /\ DOMAIN bookings # {id}

\* The time a raw field denotes, when it denotes one.
TimeOf(raw) == CHOOSE t \in Times : ToString(t) = raw

WellFormed(d) ==
    /\ d[1] # "" /\ d[2] \in Stamps /\ d[3] \in Stamps
    /\ TimeOf(d[2]) < TimeOf(d[3])

\* C11: a create request that meets an overlapping active booking is answered
\* 409, a malformed request or one for an unknown car is answered 400, and
\* either way the stored bookings are unchanged and nothing is left to insert.
C11_ConflictDistinct ==
    [][\A d \in CreateData :
            /\ (/\ WellFormed(d) /\ d[1] \in Cars
                /\ Blocked(d[1], TimeOf(d[2]), TimeOf(d[3]))
                /\ CreateRequest("w1", "alice", d[1], d[2], d[3]))
                    => /\ resp'["w1"].op = "create" /\ resp'["w1"].code = 409
                       /\ pc'["w1"] = "idle"
                       /\ bookings' = bookings /\ nextId' = nextId
            /\ (/\ ~WellFormed(d) \/ d[1] \notin Cars
                /\ CreateRequest("w1", "alice", d[1], d[2], d[3]))
                    => /\ resp'["w1"].op = "create" /\ resp'["w1"].code = 400
                       /\ pc'["w1"] = "idle"
                       /\ bookings' = bookings /\ nextId' = nextId]_vars

\* A create request was answered 409 while an active booking is stored.
C11_Witness ==
    /\ resp["w1"].op = "create" /\ resp["w1"].code = 409
    /\ pc["w1"] = "idle"
    /\ \E i \in DOMAIN bookings : Active(bookings[i])

\* C12: a well-formed create request for a car id that names no car is
\* answered 400 "Car not found"; the stored bookings are unchanged and nothing
\* is left to insert.
C12_CarNotFound ==
    [][\A d \in CreateData :
            (/\ WellFormed(d)
             /\ d[1] \notin Cars
             /\ CreateRequest("w1", "alice", d[1], d[2], d[3]))
                => /\ resp'["w1"].op = "create" /\ resp'["w1"].code = 400
                   /\ resp'["w1"].detail = "Car not found"
                   /\ pc'["w1"] = "idle"
                   /\ bookings' = bookings /\ nextId' = nextId]_vars

\* A create request for an unknown car was refused while the known cars have
\* stored bookings.
C12_Witness ==
    /\ resp["w1"].op = "create" /\ resp["w1"].detail = "Car not found"
    /\ pc["w1"] = "idle"
    /\ bookings # <<>>
    /\ \A i \in DOMAIN bookings : bookings[i].car \in Cars

\* C13: every stored booking has start < end.
C13_StartBeforeEnd ==
    \A i \in DOMAIN bookings : bookings[i].start < bookings[i].end

\* The whole days in a span of half-day ticks, found by search rather than by
\* division.
WholeDays(span) ==
    CHOOSE d \in 0..span :
        d * TicksPerDay <= span /\ span < (d + 1) * TicksPerDay

ExpectedDays(span) == IF WholeDays(span) < 1 THEN 1 ELSE WholeDays(span)

\* C14: the price computed for a new booking is the car's daily price at that
\* moment times max(whole days of end - start, 1): one day's price for a span
\* of at most one day; the stored booking carries the computed price.
C14_PriceIsDaysTimesRate ==
    [][/\ \A c \in Cars, e \in 1..MaxSpan :
            (/\ CreateCheck("w1", "alice", c, 0, e)
             /\ pc'["w1"] = "create_insert")
                => /\ loc'["w1"].b.total_price
                        = ExpectedDays(e) * cars[c].price_per_day
                   /\ e <= TicksPerDay
                        => loc'["w1"].b.total_price = cars[c].price_per_day
       /\ CreateInsert("w1")
            => bookings'[nextId].total_price = loc["w1"].b.total_price]_vars

\* A stored booking of two whole days or more costs two days or more.
C14_Witness ==
    \E i \in DOMAIN bookings :
        /\ bookings[i].end - bookings[i].start >= TicksPerDay + TicksPerDay
        /\ bookings[i].total_price = ExpectedDays(bookings[i].end - bookings[i].start)
                                        * cars[bookings[i].car].price_per_day
        /\ bookings[i].total_price > cars[bookings[i].car].price_per_day

\* C15: no step changes the total price of a booking that stays in the store.
C15_PriceFixed ==
    [][\A i \in DOMAIN bookings \cap DOMAIN bookings' :
            bookings'[i].total_price = bookings[i].total_price]_vars

\* A confirmed booking was moved to car c2 and the price of c1 was changed,
\* and the booking still carries the price computed when it was created.
C15_Witness ==
    \E i \in DOMAIN bookings :
        /\ bookings[i].car = "c2"
        /\ bookings[i].status = "confirmed"
        /\ cars["c1"].price_per_day = 80
        /\ bookings[i].total_price = 50

\* C16: a stored booking is stored in every later state.
C16_NeverDeleted == [][DOMAIN bookings \subseteq DOMAIN bookings']_vars

\* C17: a payment-intent request of the booking's user for a booking that is
\* not pending is answered 400; no intent is obtained from the gateway and the
\* stored bookings, with their references and statuses, are unchanged.
C17_NotPendingRefused ==
    [][\A u \in Users, id \in BookingIds :
            (/\ id \in DOMAIN bookings
             /\ bookings[id].user = u
             /\ bookings[id].status # "pending"
             /\ PayLoad("w1", u, id))
                => /\ resp'["w1"] = Answer("pay", 400, id)
                   /\ pc'["w1"] = "idle"
                   /\ nextIntent' = nextIntent
                   /\ intents' = intents
                   /\ bookings' = bookings]_vars

\* A payment-intent request for a confirmed booking was refused.
C17_Witness ==
    /\ resp["w1"].op = "pay" /\ resp["w1"].code = 400
    /\ pc["w1"] = "idle"
    /\ resp["w1"].id \in DOMAIN bookings
    /\ bookings[resp["w1"].id].status = "confirmed"

\* C18: an inserted booking is pending and carries no payment reference; a
\* payment-intent request for a pending booking obtains a fresh intent id, and
\* its save stores that id as the booking's reference, leaves the booking
\* pending, and the intent names the booking.
C18_LatestIntentStored ==
    [][/\ CreateInsert("w1")
            => /\ bookings'[nextId].status = "pending"
               /\ bookings'[nextId].stripe_payment_intent = NULL
       /\ \A u \in Users, id \in BookingIds :
            (/\ PayLoad("w1", u, id)
             /\ pc'["w1"] = "pay_save")
                => /\ bookings[id].status = "pending"
                   /\ loc'["w1"].intent = nextIntent
                   /\ nextIntent \notin DOMAIN intents
       /\ PaySave("w1")
            => /\ bookings'[loc["w1"].id].stripe_payment_intent
                    = loc["w1"].intent
               /\ bookings'[loc["w1"].id].status = "pending"
               /\ intents'[loc["w1"].intent] = loc["w1"].id]_vars

\* After two payment-intent requests for a booking it is pending and carries
\* the second intent.
C18_Witness ==
    \E k \in DOMAIN bookings :
        /\ pc["w1"] = "idle"
        /\ resp["w1"] = Answer("pay", 200, k)
        /\ bookings[k].status = "pending"
        /\ {1, 2} \subseteq DOMAIN intents
        /\ intents[1] = k /\ intents[2] = k
        /\ bookings[k].stripe_payment_intent = 2

\* C19: a verified payment-succeeded event whose booking is not in the store
\* is answered 200 and changes no booking and no car.
C19_MissingBookingDropped ==
    [][\A i \in IntentIds :
            (/\ i \in DOMAIN intents
             /\ intents[i] \notin DOMAIN bookings
             /\ WebhookLoad("w1", TRUE, "payment_intent.succeeded", i))
                => /\ resp'["w1"] = Answer("webhook", 200, 0)
                   /\ pc'["w1"] = "idle"
                   /\ bookings' = bookings
                   /\ cars' = cars]_vars

\* A payment-succeeded event about a deleted booking was answered 200.
C19_Witness ==
    /\ resp["w1"] = Answer("webhook", 200, 0)
    /\ pc["w1"] = "idle"
    /\ \E i \in DOMAIN intents : intents[i] \notin DOMAIN bookings

\* C20: a verified event of another type is answered 200, an event that fails
\* verification is answered 400, and neither changes a booking or a car nor
\* leaves anything to save.
C20_OtherEventsIgnored ==
    [][\A t \in EventTypes, i \in IntentIds :
            /\ (/\ t # "payment_intent.succeeded"
                /\ WebhookLoad("w1", TRUE, t, i))
                    => /\ resp'["w1"] = Answer("webhook", 200, 0)
                       /\ pc'["w1"] = "idle"
                       /\ bookings' = bookings
                       /\ cars' = cars
            /\ WebhookLoad("w1", FALSE, t, i)
                    => /\ resp'["w1"] = Answer("webhook", 400, 0)
                       /\ pc'["w1"] = "idle"
                       /\ bookings' = bookings
                       /\ cars' = cars]_vars

\* An event was ignored while a pending booking has an intent.
C20_Witness ==
    /\ resp["w1"] = Answer("webhook", 200, 0)
    /\ pc["w1"] = "idle"
    /\ \E i \in DOMAIN intents :
            /\ intents[i] \in DOMAIN bookings
            /\ bookings[intents[i]].status = "pending"

\* C21: a step that moves a booking to confirmed leaves its car rented.
C21_ConfirmedMarksRented ==
    [][\A i \in DOMAIN bookings \cap DOMAIN bookings' :
            (bookings[i].status # "confirmed"
                /\ bookings'[i].status = "confirmed")
                => cars'[bookings'[i].car].status = "rented"]_vars

\* A stored active booking of car c covers time now, ends included.
CoversNow(c, now) ==
    \E i \in DOMAIN bookings :
        /\ bookings[i].car = c
        /\ Active(bookings[i])
        /\ bookings[i].start <= now /\ now <= bookings[i].end

C25_SearchAgreesWithCheck ==
    \A c \in Cars, r \in Ranges :
        is_available_for_booking(c)
            => (c \in get_available_cars(r[1], r[2])
                    <=> _is_car_available(c, r[1], r[2]))

\* An active booking of an offered car ends where a range starts: the search
\* returns the car for that range and withholds it for the booking's own.
C25_Witness ==
    \E i \in DOMAIN bookings, r \in Ranges :
        /\ Active(bookings[i])
        /\ is_available_for_booking(bookings[i].car)
        /\ bookings[i].end = r[1]
        /\ bookings[i].car \in get_available_cars(r[1], r[2])
        /\ bookings[i].car
                \notin get_available_cars(bookings[i].start, bookings[i].end)

\* C26: a create request passes create_booking's checks only for a car that
\* is available for booking when the request is served.
C26_OnlyOfferedCars ==
    [][\A r \in Ranges :
            (/\ CreateCheck("w1", "alice", "c1", r[1], r[2])
             /\ pc'["w1"] = "create_insert")
                => is_available_for_booking("c1")]_vars

\* C27: the recompute for cancelled or completed leaves the status of a car
\* in maintenance or unavailable as it is.
C27_MaintenanceKept ==
    [][\A st \in {"cancelled", "completed"}, now \in Times :
            (/\ cars["c1"].status \in {"maintenance", "unavailable"}
             /\ update_car_status_after_booking("c1", st, now))
                => cars'["c1"].status = cars["c1"].status]_vars

\* The bookings whose owner is u.
Own(u) == {i \in DOMAIN bookings : bookings[i].user = u}

\* C23: a customer lists exactly the own bookings, retrieves an own booking,
\* and is answered 404 with nothing changed when retrieving or cancelling a
\* booking of another user; the fleet manager and the admin list every
\* booking, retrieve any of them and cancel any active one.
C23_CustomersOwnStaffAll ==
    [][\A u \in AllUsers, id \in BookingIds :
            /\ role(u) = "customer" => get_queryset(u) = Own(u)
            /\ role(u) \in {"fleet", "admin"} => get_queryset(u) = DOMAIN bookings
            /\ (/\ role(u) = "customer"
                /\ id \in DOMAIN bookings \ Own(u)
                /\ Retrieve("w1", u, id) \/ CancelLoad("w1", u, id))
                    => /\ resp'["w1"].code = 404
                       /\ pc'["w1"] = "idle"
                       /\ bookings' = bookings
            /\ (/\ role(u) = "customer"
                /\ id \in Own(u)
                /\ Retrieve("w1", u, id))
                    => resp'["w1"] = Answer("retrieve", 200, id)
            /\ (/\ role(u) \in {"fleet", "admin"}
                /\ id \in DOMAIN bookings
                /\ Retrieve("w1", u, id))
                    => resp'["w1"] = Answer("retrieve", 200, id)
            /\ (/\ role(u) \in {"fleet", "admin"}
                /\ id \in DOMAIN bookings
                /\ Active(bookings[id])
                /\ CancelLoad("w1", u, id))
                    => /\ pc'["w1"] = "cancel_save"
                       /\ loc'["w1"].id = id
                       /\ loc'["w1"].b.status = "cancelled"]_vars

\* A cancel request of the customer for the fleet manager's active booking
\* was answered 404.
C23_Witness ==
    /\ resp["w1"].op = "cancel" /\ resp["w1"].code = 404
    /\ pc["w1"] = "idle"
    /\ resp["w1"].id \in Own("frank")
    /\ Active(bookings[resp["w1"].id])

\* C28: a payment-intent request for a booking of another user, whatever the
\* requester's role, is answered 404; no intent is obtained from the gateway
\* and the stored bookings and their references are unchanged.
C28_OnlyOwnerPays ==
    [][\A u \in AllUsers, id \in BookingIds :
            (/\ id \in DOMAIN bookings \ Own(u)
             /\ PayLoad("w1", u, id))
                => /\ resp'["w1"] = Answer("pay", 404, id)
                   /\ pc'["w1"] = "idle"
                   /\ nextIntent' = nextIntent
                   /\ intents' = intents
                   /\ bookings' = bookings]_vars

\* A payment-intent request for the customer's pending booking, sent by the
\* fleet manager or the admin, was answered 404.
C28_Witness ==
    /\ resp["w1"] = Answer("pay", 404, resp["w1"].id)
    /\ pc["w1"] = "idle"
    /\ resp["w1"].id \in Own("alice")
    /\ bookings[resp["w1"].id].status = "pending"

\* C24: the save of create_payment_intent leaves the stored status of the
\* booking as it finds it.
C24_PaySaveKeepsStatus ==
    [][PaySave("w1")
            => bookings'[loc["w1"].id].status
                = bookings[loc["w1"].id].status]_vars

\* C29: every car has at most one stored image flagged primary.
C29_OnePrimary ==
    \A c \in Cars :
        Cardinality({i \in DOMAIN images :
                        images[i].car = c /\ images[i].is_primary}) <= 1

\* The user has a stored completed booking of the car.
HasCompleted(u, c) ==
    \E i \in DOMAIN bookings :
        /\ bookings[i].user = u
        /\ bookings[i].car = c
        /\ bookings[i].status = "completed"

\* C30: a step that stores a review stores one review, of a user who has a
\* completed booking of the car, and a booking the review names is that
\* user's completed booking of that car; create_review without these stores
\* nothing and is answered 400.
C30_ReviewNeedsCompleted ==
    [][/\ reviews' # reviews
            => /\ Len(reviews') = Len(reviews) + 1
               /\ SubSeq(reviews', 1, Len(reviews)) = reviews
               /\ LET r == reviews'[Len(reviews')]
                  IN /\ HasCompleted(r.user, r.car)
                     /\ r.booking # NULL
                            => /\ bookings[r.booking].user = r.user
                               /\ bookings[r.booking].car = r.car
                               /\ bookings[r.booking].status = "completed"
       /\ \A u \in Users, c \in Cars, b \in {NULL} \cup DOMAIN bookings :
            (/\ ~HasCompleted(u, c)
                    \/ (b # NULL /\ (bookings[b].user # u
                                        \/ bookings[b].car # c
                                        \/ bookings[b].status # "completed"))
             /\ create_review("w1", u, c, b))
                => /\ reviews' = reviews
                   /\ resp'["w1"].op = "review" /\ resp'["w1"].code = 400]_vars

\* A review is stored, and a later review request was refused.
C30_Witness ==
    /\ Len(reviews) >= 1
    /\ resp["w1"].op = "review" /\ resp["w1"].code = 400
    /\ pc["w1"] = "idle"

====
